---- MODULE Spec2Model ----
(***************************************************************************)
(* Model of SocketSupport (SocketSupport.h / SocketSupport.cpp): the       *)
(* static constructor that starts Winsock, DuplicateStdinSocket, and       *)
(* EventSelectRead / EventSelectWrite (both through EventSelect).          *)
(*                                                                         *)
(* The Winsock and kernel calls the code makes are modelled by their       *)
(* documented results: WSAStartup returns 0 or the error code itself;      *)
(* WSADuplicateSocket and WSAEventSelect return 0 or SOCKET_ERROR and set  *)
(* the calling thread's last error; WSACreateEvent returns a new event or  *)
(* WSA_INVALID_EVENT.  Managed callers are threads that call the three     *)
(* public static methods; the runtime runs the static constructor once,    *)
(* before the first static member is used, and blocks other threads while  *)
(* it runs.  A method body is one step: WSAGetLastError (line 36) then     *)
(* returns the error the same thread's WSADuplicateSocket has just set.    *)
(* Handle values stay within the Int32 range, so IntPtr::ToInt32 (line 61) *)
(* is the identity on them.  An event id names the event object, not the   *)
(* handle value, so it is never reused.                                    *)
(***************************************************************************)
EXTENDS Integers, Sequences, FiniteSets, TLC

\* ---------------------------------------------------------------- bounds
NumThreads == 2
MaxEvents == 2
MaxStartupCalls == 2
Threads == 1..NumThreads

\* ------------------------------------------------------ program constants
SOCKET_ERROR == -1
WSAENOTSOCK == 10038
FD_READ == 1
FD_WRITE == 2
WSA_INVALID_EVENT == 0
SizeofWSAPROTOCOL_INFOW == 628
SizeofWSAPROTOCOL_INFOA == 372

\* sizeof(WSAPROTOCOL_INFO), line 25.  The unit compiles only with UNICODE
\* defined (line 27/33 pass a WSAPROTOCOL_INFOW* to WSADuplicateSocket), and
\* then WSAPROTOCOL_INFO is WSAPROTOCOL_INFOW.
SizeofWSAPROTOCOL_INFO_Ansi == SizeofWSAPROTOCOL_INFOA
SizeofWSAPROTOCOL_INFO == SizeofWSAPROTOCOL_INFOW

\* Error codes WSAStartup can return (WSASYSNOTREADY, WSAVERNOTSUPPORTED).
StartupFailures == {10091, 10092}
WSANOTINITIALISED == 10093
WSAEINVAL == 10022
\* Failures of WSADuplicateSocket on a genuine socket (WSAEMFILE, WSAENETDOWN).
DupEnvErrors == {10024, 10050}
\* Failure of WSAEventSelect on a genuine socket and event (WSAENETDOWN).
SelectEnvErrors == {10050}

\* ----------------------------------------------------------- handle space
StdinH == 3
SockA == 100
INVALID_SOCKET == -1
SocketArgs == {StdinH, SockA, INVALID_SOCKET}
StdinKinds == {"socket", "file"}

SelectOps == {"EventSelectRead", "EventSelectWrite"}

VARIABLES
    cctor,          \* "notrun" | "running" | "done" | "failed"
    startupCalls,   \* number of WSAStartup calls made
    wsaErr,         \* err of the static constructor (line 15)
    wsaStarted,     \* Winsock is started in this process
    stdinKind,      \* what the inherited standard-input handle is
    open,           \* open handles among StdinH, SockA
    events,         \* event id -> "none" | "open" | "closed"
    assoc,          \* socket -> [ev, mask] the OS associates with it
    owned,          \* events owned by a live SafeWaitHandle
    wrapped,        \* event -> [n, sock, op]: the SafeWaitHandles made for it
    lastSel,        \* socket -> [ev, op] of its last call that returned
    pc,             \* per thread: "idle" | "called" (inside a call)
    res             \* what the call completed last did and returned

vars == <<cctor, startupCalls, wsaErr, wsaStarted, stdinKind, open, events,
          assoc, owned, wrapped, lastSel, pc, res>>

NoAssoc == [ev |-> 0, mask |-> 0]
NoWrap == [n |-> 0, sock |-> 0, op |-> "none"]
NoSel == [ev |-> 0, op |-> "none"]
NoRes == [t |-> 0, op |-> "none", arg |-> 0, outcome |-> "none", code |-> 0,
          handle |-> 0, osRet |-> 0, osErr |-> 0, ev |-> 0,
          created |-> "na", selectCalled |-> FALSE, sockValid |-> FALSE,
          blobLen |-> 0, written |-> 0, listening |-> FALSE,
          stdinOpenBefore |-> FALSE, stdinOpenAfter |-> FALSE]

HandleKind(h) == IF h = StdinH THEN stdinKind
                 ELSE IF h = SockA THEN "socket" ELSE "invalid"
IsOpenSocket(h) == h \in open /\ HandleKind(h) = "socket"

Init ==
    /\ cctor = "notrun"
    /\ startupCalls = 0
    /\ wsaErr = 0
    /\ wsaStarted = FALSE
    /\ stdinKind \in StdinKinds
    /\ open = {StdinH, SockA}
    /\ events = [e \in 1..MaxEvents |-> "none"]
    /\ assoc = [s \in {StdinH, SockA} |-> NoAssoc]
    /\ owned = {}
    /\ wrapped = [e \in 0..MaxEvents |-> NoWrap]
    /\ lastSel = [s \in {StdinH, SockA} |-> NoSel]
    /\ pc = [t \in Threads |-> "idle"]
    /\ res = NoRes

\* A managed thread calls one of the three public static methods; which
\* one, and with what argument, shows when its body runs.
Call(t) ==
    /\ pc[t] = "idle"
    /\ pc' = [pc EXCEPT ![t] = "called"]
    /\ UNCHANGED <<cctor, startupCalls, wsaErr, wsaStarted, stdinKind, open,
                   events, assoc, owned, wrapped, lastSel, res>>

\* ------------------------------------------------ static constructor
\* The runtime starts the static constructor for the first thread that
\* uses a static member, and only if it has not been started yet.
NeedsStaticCtor_Always == cctor \in {"notrun", "done"}
NeedsStaticCtor == cctor = "notrun"

\* Lines 13-15: WSAStartup(MAKEWORD(2,0), &wsaData).
StaticCtorBegin(t) ==
    /\ pc[t] = "called"
    /\ NeedsStaticCtor
    /\ startupCalls < MaxStartupCalls
    /\ \E err \in {0} \cup StartupFailures :
          /\ wsaErr' = err
          /\ wsaStarted' = (err = 0)
    /\ startupCalls' = startupCalls + 1
    /\ cctor' = "running"
    /\ UNCHANGED <<stdinKind, open, events, assoc, owned, wrapped, lastSel,
                   pc, res>>

\* Lines 16-19: the check of err and the throw.  WSAStartup never returns
\* SOCKET_ERROR, so with the results above this test is never true.
StaticCtorThrows(err) == err = SOCKET_ERROR

StaticCtorEnd ==
    /\ cctor = "running"
    /\ cctor' = IF StaticCtorThrows(wsaErr) THEN "failed" ELSE "done"
    /\ UNCHANGED <<startupCalls, wsaErr, wsaStarted, stdinKind, open, events,
                   assoc, owned, wrapped, lastSel, pc, res>>

\* A method body runs once the static constructor has completed.
BodyMayRun == cctor \in {"done", "failed"}

\* A failed static constructor makes every use of the class throw.
TypeInitFailure(t, op, arg) ==
    [NoRes EXCEPT !.t = t, !.op = op, !.arg = arg,
                  !.outcome = "TypeInitializationException", !.code = wsaErr]

\* ------------------------------------------------ DuplicateStdinSocket
\* What WSADuplicateSocket (line 33) can do with handle h: its return value,
\* the last error it sets, and the bytes it writes through infoPtr.
WSADuplicateSocket(h) ==
    IF ~wsaStarted
    THEN {[ret |-> SOCKET_ERROR, err |-> WSANOTINITIALISED, written |-> 0]}
    ELSE IF ~IsOpenSocket(h)
    THEN {[ret |-> SOCKET_ERROR, err |-> WSAENOTSOCK, written |-> 0]}
    ELSE {[ret |-> 0, err |-> 0, written |-> SizeofWSAPROTOCOL_INFOW]}
         \cup {[ret |-> SOCKET_ERROR, err |-> e, written |-> 0] :
                  e \in DupEnvErrors}

\* Lines 34-45: what the method does with err and errCode.
DuplicateOutcome_CloseOnNotSock(err, errCode) ==
    IF err = SOCKET_ERROR
    THEN IF errCode = WSAENOTSOCK
         THEN [outcome |-> "false", code |-> 0, close |-> TRUE]
         ELSE [outcome |-> "SocketException", code |-> errCode, close |-> FALSE]
    ELSE [outcome |-> "true", code |-> 0, close |-> TRUE]
DuplicateOutcome_ThrowErr(err, errCode) ==
    IF err = SOCKET_ERROR
    THEN IF errCode = WSAENOTSOCK
         THEN [outcome |-> "false", code |-> 0, close |-> FALSE]
         ELSE [outcome |-> "SocketException", code |-> err, close |-> FALSE]
    ELSE [outcome |-> "true", code |-> 0, close |-> TRUE]
DuplicateOutcome(err, errCode) ==
    IF err = SOCKET_ERROR
    THEN IF errCode = WSAENOTSOCK
         THEN [outcome |-> "false", code |-> 0, close |-> FALSE]
         ELSE [outcome |-> "SocketException", code |-> errCode, close |-> FALSE]
    ELSE [outcome |-> "true", code |-> 0, close |-> TRUE]

DuplicateStdinSocket(t) ==
    /\ pc[t] = "called"
    /\ BodyMayRun
    /\ IF cctor = "failed"
       THEN /\ res' = TypeInitFailure(t, "DuplicateStdinSocket", 0)
            /\ UNCHANGED open
       ELSE \E os \in WSADuplicateSocket(StdinH) :
              LET errCode == os.err
                  out == DuplicateOutcome(os.ret, errCode)
                  open2 == IF out.close THEN open \ {StdinH} ELSE open
              IN /\ open' = open2
                 /\ res' =
                       [NoRes EXCEPT
                          !.t = t,
                          !.op = "DuplicateStdinSocket",
                          !.outcome = out.outcome,
                          !.code = out.code,
                          !.osRet = os.ret,
                          !.osErr = os.err,
                          !.sockValid = IsOpenSocket(StdinH),
                          !.blobLen = SizeofWSAPROTOCOL_INFO,
                          !.written = os.written,
                          !.listening = TRUE,
                          !.stdinOpenBefore = (StdinH \in open),
                          !.stdinOpenAfter = (StdinH \in open2)]
    /\ pc' = [pc EXCEPT ![t] = "idle"]
    /\ UNCHANGED <<cctor, startupCalls, wsaErr, wsaStarted, stdinKind, events,
                   assoc, owned, wrapped, lastSel>>

\* ------------------------------------------------ EventSelect
FreshEvents == {e \in 1..MaxEvents : events[e] = "none"}

\* What WSACreateEvent (line 62) can return: a new event, or
\* WSA_INVALID_EVENT when the system cannot create one.
WSACreateEvent ==
    {WSA_INVALID_EVENT} \cup
    (IF FreshEvents = {} THEN {}
     ELSE {CHOOSE e \in FreshEvents : \A f \in FreshEvents : e <= f})

\* What WSAEventSelect (line 63) can do with socket s and event ev, the
\* event table being evs: its return value and the last error it sets.
WSAEventSelect(s, ev, evs) ==
    IF ~wsaStarted
    THEN {[ret |-> SOCKET_ERROR, err |-> WSANOTINITIALISED]}
    ELSE IF ~IsOpenSocket(s)
    THEN {[ret |-> SOCKET_ERROR, err |-> WSAENOTSOCK]}
    ELSE IF ev = WSA_INVALID_EVENT \/ evs[ev] # "open"
    THEN {[ret |-> SOCKET_ERROR, err |-> WSAEINVAL]}
    ELSE {[ret |-> 0, err |-> 0]}
         \cup {[ret |-> SOCKET_ERROR, err |-> e] : e \in SelectEnvErrors}

\* Lines 64-68: what EventSelect does with err and ev.
EventSelectOutcome_ThrowOnSuccess(err, ev) ==
    IF err # SOCKET_ERROR
    THEN [outcome |-> "SocketException", code |-> err, handle |-> 0]
    ELSE [outcome |-> "handle", code |-> 0, handle |-> ev]
EventSelectOutcome(err, ev) ==
    IF err = SOCKET_ERROR
    THEN [outcome |-> "SocketException", code |-> err, handle |-> 0]
    ELSE [outcome |-> "handle", code |-> 0, handle |-> ev]

\* Lines 59-69, called by op (EventSelectRead or EventSelectWrite).
EventSelect(t, op, s, eventMask) ==
    /\ pc[t] = "called"
    /\ BodyMayRun
    /\ IF cctor = "failed"
       THEN /\ res' = TypeInitFailure(t, op, s)
            /\ UNCHANGED <<events, assoc, owned, wrapped, lastSel>>
       ELSE \E ev \in WSACreateEvent :
              LET evs == IF ev = WSA_INVALID_EVENT THEN events
                         ELSE [events EXCEPT ![ev] = "open"]
              IN \E os \in WSAEventSelect(s, ev, evs) :
                   LET out == EventSelectOutcome(os.ret, ev)
                       h == out.handle
                   IN /\ events' = evs
                      /\ assoc' = IF os.ret = 0
                                  THEN [assoc EXCEPT ![s] =
                                          [ev |-> ev, mask |-> eventMask]]
                                  ELSE assoc
                      /\ owned' = IF out.outcome = "handle"
                                  THEN owned \cup {h} ELSE owned
                      /\ wrapped' = IF out.outcome = "handle"
                                    THEN [wrapped EXCEPT ![h] =
                                            [n |-> @.n + 1, sock |-> s,
                                             op |-> op]]
                                    ELSE wrapped
                      /\ lastSel' = IF out.outcome = "handle" /\ s \in DOMAIN lastSel
                                    THEN [lastSel EXCEPT ![s] =
                                            [ev |-> h, op |-> op]]
                                    ELSE lastSel
                      /\ res' =
                            [NoRes EXCEPT
                               !.t = t,
                               !.op = op,
                               !.arg = s,
                               !.outcome = out.outcome,
                               !.code = out.code,
                               !.handle = h,
                               !.osRet = os.ret,
                               !.osErr = os.err,
                               !.ev = ev,
                               !.created = IF ev = WSA_INVALID_EVENT
                                           THEN "failed" ELSE "ok",
                               !.selectCalled = TRUE,
                               !.sockValid = IsOpenSocket(s)]
    /\ pc' = [pc EXCEPT ![t] = "idle"]
    /\ UNCHANGED <<cctor, startupCalls, wsaErr, wsaStarted, stdinKind, open>>

\* Lines 49-52.
EventSelectRead(t, sInt) == EventSelect(t, "EventSelectRead", sInt, FD_READ)

\* Lines 54-57.
EventSelectWrite_ReadMask(t, sInt) ==
    EventSelect(t, "EventSelectWrite", sInt, FD_READ)
EventSelectWrite(t, sInt) == EventSelect(t, "EventSelectWrite", sInt, FD_WRITE)

\* Line 68: the SafeWaitHandle owns the event (ownsHandle TRUE); the caller
\* releasing it closes the event.
ReleaseWaitHandle(e) ==
    /\ e \in owned
    /\ owned' = owned \ {e}
    /\ events' = [events EXCEPT ![e] = "closed"]
    /\ UNCHANGED <<cctor, startupCalls, wsaErr, wsaStarted, stdinKind, open,
                   assoc, wrapped, lastSel, pc, res>>

Next ==
    \/ \E t \in Threads :
          \/ Call(t)
          \/ StaticCtorBegin(t)
          \/ DuplicateStdinSocket(t)
          \/ \E sInt \in SocketArgs : EventSelectRead(t, sInt)
          \/ \E sInt \in SocketArgs : EventSelectWrite(t, sInt)
    \/ StaticCtorEnd
    \/ \E e \in 1..MaxEvents : ReleaseWaitHandle(e)

Spec == Init /\ [][Next]_vars

\* ======================================================================
\* Properties
\* ======================================================================
Sockets == {StdinH, SockA}
IsDup == res.op = "DuplicateStdinSocket"
IsSelect == res.op \in SelectOps

\* C1: when WSADuplicateSocket reports WSAENOTSOCK, DuplicateStdinSocket
\* returns false, throws nothing, and a standard-input handle that was open
\* before the call is still open.
C1_NotSocketReturnsFalse ==
    (IsDup /\ res.osRet = SOCKET_ERROR /\ res.osErr = WSAENOTSOCK)
        => /\ res.outcome = "false"
           /\ res.code = 0
           /\ res.stdinOpenAfter = res.stdinOpenBefore
           /\ (res.stdinOpenBefore => StdinH \in open)
C1_Witness ==
    /\ IsDup /\ res.osErr = WSAENOTSOCK /\ res.outcome = "false"
    /\ stdinKind = "file" /\ res.stdinOpenBefore /\ StdinH \in open

\* C2: when standard input is a genuine socket and WSADuplicateSocket
\* succeeds, DuplicateStdinSocket returns true, the record's blob is exactly
\* as long as the structure the OS wrote into it, the record is marked
\* listening, and the standard-input handle is closed.
C2_SuccessRecordAndClose ==
    (IsDup /\ res.sockValid /\ res.osRet = 0)
        => /\ res.outcome = "true"
           /\ res.written = SizeofWSAPROTOCOL_INFOW
           /\ res.blobLen = res.written
           /\ res.listening
           /\ res.stdinOpenBefore /\ ~res.stdinOpenAfter
           /\ StdinH \notin open
C2_Witness ==
    /\ IsDup /\ res.sockValid /\ res.osRet = 0 /\ res.outcome = "true"
    /\ stdinKind = "socket" /\ StdinH \notin open
    /\ res.blobLen = SizeofWSAPROTOCOL_INFOW

\* C3: when WSADuplicateSocket fails with an error other than WSAENOTSOCK,
\* DuplicateStdinSocket throws a SocketException carrying that thread's
\* WSAGetLastError value, returns no boolean, and leaves standard input open.
C3_OtherErrorThrowsLastError ==
    (IsDup /\ res.osRet = SOCKET_ERROR /\ res.osErr # WSAENOTSOCK)
        => /\ res.outcome = "SocketException"
           /\ res.code = res.osErr
           /\ res.stdinOpenAfter = res.stdinOpenBefore
           /\ (res.stdinOpenBefore => StdinH \in open)
C3_Witness ==
    /\ IsDup /\ res.outcome = "SocketException" /\ res.code \in DupEnvErrors
    /\ res.sockValid /\ StdinH \in open

\* C4: WSAStartup runs at most once, the static constructor has completed
\* before any method body has run, and once it has completed it is never
\* started again however many calls follow.
C4_InitOnceBeforeBodies ==
    /\ startupCalls <= 1
    /\ (cctor # "notrun") = (startupCalls = 1)
    /\ res.op # "none" => cctor \in {"done", "failed"}
    /\ res.outcome \notin {"none", "TypeInitializationException"}
          => cctor = "done"
C4_Witness ==
    /\ cctor = "done" /\ startupCalls = 1 /\ wsaStarted
    /\ IsDup /\ res.outcome = "false"
    /\ \E e \in 1..MaxEvents : wrapped[e].n = 1
    /\ \E t \in Threads : pc[t] = "called"

\* C5: if WSAStartup returns a failure result, the static constructor throws
\* and the class never becomes initialized, so no method body runs.
C5_StartupFailureThrows ==
    (wsaErr # 0 /\ cctor # "running")
        => /\ cctor = "failed"
           /\ res.outcome \in {"none", "TypeInitializationException"}

\* C6: when the event was created and WSAEventSelect fails because the
\* handle is not an open socket, the exception thrown carries the non-zero
\* error code the OS reports as the last socket error, and no wait handle is
\* returned.
C6_SelectErrorCarriesOsCode ==
    (IsSelect /\ ~res.sockValid /\ res.created = "ok"
              /\ res.osRet = SOCKET_ERROR /\ res.osErr = WSAENOTSOCK)
        => /\ res.outcome = "SocketException"
           /\ res.code = res.osErr
           /\ res.code # 0
           /\ res.handle = 0

\* C7: when WSACreateEvent fails (Winsock started, valid socket), the call
\* throws, returns no wait handle, and never calls WSAEventSelect with the
\* invalid event.
C7_CreateFailureStopsCall ==
    (IsSelect /\ res.created = "failed" /\ res.sockValid /\ wsaStarted)
        => /\ res.outcome = "SocketException"
           /\ res.handle = 0
           /\ ~res.selectCalled

\* C8 as stated: on a valid socket (Winsock started, event created) a
\* registration call throws nothing and returns a wait handle.
C8_ValidSocketNeverThrows ==
    (IsSelect /\ res.sockValid /\ wsaStarted /\ res.created = "ok")
        => res.outcome = "handle"

\* C8 as amended: on a valid socket a registration call throws only when the
\* OS failed to create the event or to associate it; otherwise it returns a
\* wait handle wrapping the event it has just created.  Every event is
\* wrapped by at most one wait handle, so the handles of two calls are
\* distinct, and an owned event is a valid, open, once-wrapped event.
C8_ValidSocketDistinctHandles ==
    /\ (IsSelect /\ res.sockValid)
          => \/ /\ res.outcome = "handle"
                /\ res.created = "ok" /\ res.osRet = 0
                /\ res.handle = res.ev
                /\ res.handle # WSA_INVALID_EVENT
                /\ wrapped[res.handle].n = 1
             \/ /\ res.outcome = "SocketException"
                /\ (res.created = "failed" \/ res.osRet = SOCKET_ERROR)
    /\ (IsSelect /\ res.created = "ok" /\ res.osRet = 0)
          => res.outcome = "handle"
    /\ \A e \in 0..MaxEvents :
          /\ wrapped[e].n <= 1
          /\ wrapped[e].n = 1 => (e # WSA_INVALID_EVENT /\ events[e] # "none")
    /\ \A e \in owned : wrapped[e].n = 1 /\ events[e] = "open"
C8_Witness ==
    \E e1, e2 \in owned :
        /\ e1 # e2
        /\ wrapped[e1].sock = SockA /\ wrapped[e1].op = "EventSelectRead"
        /\ wrapped[e2].sock = SockA /\ wrapped[e2].op = "EventSelectWrite"
        /\ IsSelect /\ res.outcome = "handle" /\ res.handle \in {e1, e2}

\* C9: a socket is associated with exactly the event and the single
\* condition (FD_READ for EventSelectRead, FD_WRITE for EventSelectWrite) of
\* the most recent registration call on it that returned; no event returned
\* by an earlier call on it is still associated with it.
C9_LastRegistrationWins ==
    \A s \in Sockets :
        /\ lastSel[s] = NoSel => assoc[s] = NoAssoc
        /\ lastSel[s] # NoSel =>
              /\ assoc[s].ev = lastSel[s].ev
              /\ assoc[s].mask = (IF lastSel[s].op = "EventSelectRead"
                                  THEN FD_READ ELSE FD_WRITE)
        /\ assoc[s].mask \in {0, FD_READ, FD_WRITE}
        /\ \A e \in 1..MaxEvents :
              (wrapped[e].n > 0 /\ wrapped[e].sock = s /\ e # lastSel[s].ev)
                  => assoc[s].ev # e
C9_Witness ==
    \E e \in owned :
        /\ wrapped[e].sock = SockA /\ wrapped[e].op = "EventSelectRead"
        /\ lastSel[SockA].op = "EventSelectWrite"
        /\ lastSel[SockA].ev # e
        /\ assoc[SockA] = [ev |-> lastSel[SockA].ev, mask |-> FD_WRITE]

\* C10: every open event the component created is owned by a wait handle
\* that was returned to a caller.
C10_NoEventLeaked ==
    \A e \in 1..MaxEvents : events[e] = "open" => e \in owned

====
